---- MODULE Spec2Model ----
(***************************************************************************)
(* restCommandFacility (src/src/RestCommandFacility.cpp): a command        *)
(* facility that takes commands from a REST endpoint, runs each against    *)
(* the DAQModuleManager through a std::future kept in a concurrent queue,  *)
(* and resolves the futures in order on one response-handler thread, all   *)
(* under one process-wide signal flag.                                     *)
(*                                                                         *)
(* Threads of the model: the owner thread (constructor, run, destructor),  *)
(* the response-handler thread, the endpoint's request handling, and       *)
(* signal delivery.                                                        *)
(***************************************************************************)
EXTENDS Integers, Sequences, FiniteSets, TLC

VARIABLES
  uri,             \* the constructor's argument
  main_pc,         \* the owner thread's position
  cfg,             \* the constructor's locals scheme/iname/portstr/epname/hostname
  handlers,        \* TRUE once std::signal has installed sigHandler
  global_signal,   \* volatile int global_signal
  manager_ptr_,    \* mutable DAQModuleManager* manager_ptr_
  rest_endpoint_,  \* std::unique_ptr<RestEndpoint>: "null" or the endpoint's state
  result_queue_,   \* ResultQueue: the futures in the queue, oldest first
  futures,         \* every future created so far, indexed by its enqueue number
  worker_pc,       \* the response-handler thread's position
  fut,             \* responseHandler's local fut (0: no shared state)
  res,             \* responseHandler's local res
  delivered,       \* the "Answer to .." records written by line 77, in order
  started,         \* enqueue numbers in the order their execute calls began
  errors,          \* the ers::error records, in order
  joins,           \* how many times response_handler_.join() has returned
  shutdowns,       \* how many times rest_endpoint_->shutdown() was called
  crashed          \* "no", or how the process died

vars == << uri, main_pc, cfg, handlers, global_signal, manager_ptr_,
           rest_endpoint_, result_queue_, futures, worker_pc, fut, res,
           delivered, started, errors, joins, shutdowns, crashed >>

(***************************************************************************)
(* Bounds of the model.                                                    *)
(***************************************************************************)
\* How many commands the endpoint receives in one run.
MaxCommands == 3

(***************************************************************************)
(* std::string, with size_t arithmetic.  Positions are 0-based as in C++;  *)
(* a string is a sequence of one-character strings.                        *)
(***************************************************************************)
\* size_t wraps modulo 2^64; TLC's integers are 32 bit, so the model wraps
\* modulo 2^30: every wrapped value still exceeds every string length here.
SizeMod == 1073741824

npos == SizeMod - 1

SizeAdd(a, b) == (a + b) % SizeMod

SizeSub(a, b) == (a - b) % SizeMod

Min(a, b) == IF a <= b THEN a ELSE b

\* std::string::find(char): the first position holding c, or npos.
FindChar(s, c) ==
  LET hits == { i \in 1..Len(s) : s[i] = c }
  IN  IF hits = {} THEN npos
      ELSE (CHOOSE i \in hits : \A j \in hits : i <= j) - 1

\* A find_last_of that stops at the first hit, as find does.
FindLastOf_first(s, c) ==
  LET hits == { i \in 1..Len(s) : s[i] = c }
  IN  IF hits = {} THEN npos
      ELSE (CHOOSE i \in hits : \A j \in hits : i <= j) - 1

\* std::string::find_last_of(char): the last position holding c, or npos.
FindLastOf(s, c) ==
  LET hits == { i \in 1..Len(s) : s[i] = c }
  IN  IF hits = {} THEN npos
      ELSE (CHOOSE i \in hits : \A j \in hits : i >= j) - 1

\* std::string::find(const char*): the first position where t occurs, or npos.
FindStr(s, t) ==
  LET hits == { i \in 1..(Len(s) - Len(t) + 1) :
                  \A k \in 1..Len(t) : s[i + k - 1] = t[k] }
  IN  IF hits = {} THEN npos
      ELSE (CHOOSE i \in hits : \A j \in hits : i <= j) - 1

\* std::string::substr(pos, count): [pos, pos + min(count, size() - pos)).
\* (It throws when pos > size(); lines 112-116 never call it so: each pos is
\* 0, or one past a character found, or three past a "://" found.)
Substr(s, pos, count) ==
  LET n == Min(count, Len(s) - pos)
  IN  [ i \in 1..n |-> s[pos + i] ]

(***************************************************************************)
(* The constructor's URI parse, lines 106-116.                             *)
(***************************************************************************)
SchemeSep == << ":", "/", "/" >>

NoFields ==
  [ parsed |-> FALSE, scheme |-> << >>, iname |-> << >>, portstr |-> << >>,
    epname |-> << >>, hostname |-> << >> ]

\* Line 109: the only test the constructor makes before it throws UnsupportedUri.
UriRejected(u) ==
  FindLastOf(u, ":") = npos \/ FindStr(u, SchemeSep) = npos

\* Lines 106-108 and 112-116; used only where line 109 did not throw.
ParseUri(u) ==
  LET col == FindLastOf(u, ":")
      at  == FindChar(u, "@")
      sep == FindStr(u, SchemeSep)
  IN  [ parsed   |-> TRUE,
        scheme   |-> Substr(u, 0, sep),
        iname    |-> Substr(u, SizeAdd(sep, 3), npos),
        portstr  |-> Substr(u, SizeAdd(col, 1), npos),
        epname   |-> Substr(u, SizeAdd(sep, 3), SizeSub(at, SizeAdd(sep, 3))),
        hostname |-> Substr(u, SizeAdd(at, 1), SizeSub(col, SizeAdd(at, 1))) ]

(***************************************************************************)
(* Line 130: std::stoi and ValidPort::portNumber.                          *)
(***************************************************************************)
DigitValue(c) ==
  CASE c = "0" -> 0 [] c = "1" -> 1 [] c = "2" -> 2 [] c = "3" -> 3
    [] c = "4" -> 4 [] c = "5" -> 5 [] c = "6" -> 6 [] c = "7" -> 7
    [] c = "8" -> 8 [] c = "9" -> 9 [] OTHER -> -1

\* The length of the run of digits s starts with.
RECURSIVE DigitRun(_)
DigitRun(s) ==
  IF s = << >> \/ DigitValue(Head(s)) < 0 THEN 0 ELSE 1 + DigitRun(Tail(s))

RECURSIVE DecimalValue(_, _)
DecimalValue(s, n) ==
  IF n = 0 THEN 0 ELSE 10 * DecimalValue(s, n - 1) + DigitValue(s[n])

\* std::stoi throws std::invalid_argument when s starts with no digit
\* (the model's strings hold no sign and no white space).
StoiThrows(s) == DigitRun(s) = 0

\* std::stoi: the value of the leading digits, whatever follows them.
Stoi(s) == DecimalValue(s, DigitRun(s))

MinPort == 1

MaxPort == 65535

\* ValidPort::portNumber throws outside [1, 65535].
PortNumberThrows(p) == p < MinPort \/ p > MaxPort

\* Lines 129-136: TRUE when the try block reaches the end, so that the
\* endpoint exists and is initialised; FALSE when line 135 logged instead.
EndpointSetUp(portstr) ==
  ~StoiThrows(portstr) /\ ~PortNumberThrows(Stoi(portstr))

(***************************************************************************)
(* Commands and the collaborators the callback calls.  A command text is   *)
(* one of four kinds: it decodes and executes, it is malformed JSON, the   *)
(* manager raises on it, or the manager's execute never returns.  The      *)
(* failures are std::exception objects (nlohmann::json::parse_error, an    *)
(* ERS issue of the manager), each with its what() text.                   *)
(***************************************************************************)
CommandTexts == { "good", "malformed", "rejected", "endless" }

ReplyAddrs == { "client" }

ReplyPorts == { 5000 }

ParseErrorText == "parse error: unexpected end of input"

ExecErrorText == "module X not found"

\* object_t::parse(command): the what() text of the parse_error it throws, or "".
ParseFailure(command) == IF command = "malformed" THEN ParseErrorText ELSE ""

\* DAQModuleManager::execute: the what() text of the issue it throws, or "".
ExecuteFailure(command) == IF command = "rejected" THEN ExecErrorText ELSE ""

\* DAQModuleManager::execute never returns for this command.
ExecuteHangs(command) == command = "endless"

NoResult == [ answer_addr_ |-> "", answer_port_ |-> 0, result_ |-> "" ]

NoOutcome == [ kind |-> "none", rr |-> NoResult, what |-> "" ]

(***************************************************************************)
(* commandHandler, lines 53-64.  The outcome of one call: the CommandResult *)
(* it returns (kind "value"), or the exception that leaves it (kind        *)
(* "exception").                                                           *)
(***************************************************************************)
\* Line 56: the what() text of the exception the try block ends with, or "".
TryFailure(command) ==
  IF ParseFailure(command) # "" THEN ParseFailure(command)
  ELSE ExecuteFailure(command)

\* A commandHandler whose catch block leaves the result as constructed.
commandHandler_unset(command, ansaddr, port) ==
  LET rr == [ answer_addr_ |-> ansaddr, answer_port_ |-> port, result_ |-> "" ]
  IN  IF TryFailure(command) = ""
      THEN [ kind |-> "value", rr |-> [ rr EXCEPT !.result_ = "OK" ], what |-> "" ]
      ELSE [ kind |-> "value", rr |-> rr, what |-> "" ]

\* A commandHandler with no try/catch: the exception leaves it.
commandHandler_nocatch(command, ansaddr, port) ==
  LET rr == [ answer_addr_ |-> ansaddr, answer_port_ |-> port, result_ |-> "" ]
  IN  IF TryFailure(command) = ""
      THEN [ kind |-> "value", rr |-> [ rr EXCEPT !.result_ = "OK" ], what |-> "" ]
      ELSE [ kind |-> "exception", rr |-> rr, what |-> TryFailure(command) ]

commandHandler(command, ansaddr, port) ==
  LET rr == [ answer_addr_ |-> ansaddr, answer_port_ |-> port, result_ |-> "" ]
  IN  IF TryFailure(command) = ""
      THEN [ kind |-> "value", rr |-> [ rr EXCEPT !.result_ = "OK" ], what |-> "" ]
      ELSE [ kind |-> "value",
             rr   |-> [ rr EXCEPT !.result_ = TryFailure(command) ],
             what |-> "" ]

(***************************************************************************)
(* The futures.  std::async(policy_, command_callback_, ...) makes one per *)
(* request: "deferred" until somebody waits on it, "running" while the     *)
(* callback is inside line 56, "ready" once the callback has ended.        *)
(***************************************************************************)
\* The other launch policy.
policy_async == "async"

\* Line 44.
policy_ == "deferred"

\* The futures whose callback is inside DAQModuleManager::execute.
Executing ==
  { f \in 1..Len(futures) :
      futures[f].state = "running" /\ ParseFailure(futures[f].command) = "" }

\* The callback of future f begins (line 56): it decodes the text and, when
\* that succeeds, calls execute through manager_ptr_.  A null manager_ptr_
\* is dereferenced there: the process dies.
CallbackBegin(f) ==
  IF ParseFailure(futures[f].command) = "" /\ manager_ptr_ # "manager"
  THEN /\ crashed' = "null_manager"
       /\ UNCHANGED << futures, started >>
  ELSE /\ futures' = [ futures EXCEPT ![f].state = "running" ]
       /\ started' = IF ParseFailure(futures[f].command) = ""
                     THEN Append(started, f) ELSE started
       /\ UNCHANGED crashed

\* A try_pop that takes the newest entry instead of the oldest.
try_pop_newest(q) ==
  IF q = << >>
  THEN [ success |-> FALSE, value |-> 0, rest |-> q ]
  ELSE [ success |-> TRUE, value |-> q[Len(q)], rest |-> SubSeq(q, 1, Len(q) - 1) ]

\* A try_pop that copies the oldest entry and leaves it in the queue.
try_pop_keeps(q) ==
  IF q = << >>
  THEN [ success |-> FALSE, value |-> 0, rest |-> q ]
  ELSE [ success |-> TRUE, value |-> Head(q), rest |-> q ]

\* A try_pop that never succeeds.
try_pop_never(q) == [ success |-> FALSE, value |-> 0, rest |-> q ]

\* tbb::concurrent_queue::try_pop, line 73: success, the value, what is left.
try_pop(q) ==
  IF q = << >>
  THEN [ success |-> FALSE, value |-> 0, rest |-> q ]
  ELSE [ success |-> TRUE, value |-> Head(q), rest |-> Tail(q) ]

\* A wait that gives up before the shared state is ready.
WaitReturns_early(f) == TRUE

\* std::future::wait, line 75, returns once the shared state is ready.
WaitReturns(f) == futures[f].state = "ready"

(***************************************************************************)
(* The initial state: the process before make(uri) runs.                   *)
(***************************************************************************)
SIGQUIT == 3

SIGABRT == 6

\* The signals whose handler the constructor installs and the kernel delivers.
CaughtSignals == { SIGQUIT, SIGABRT }

GoodUri == << "r", ":", "/", "/", "e", "@", "h", ":", "8", "0" >>

ZeroPortUri == << "r", ":", "/", "/", "e", "@", "h", ":", "0" >>

NoSchemeSepUri == << "r", ":", "e", "@", "h" >>

\* The configuration strings of the lifecycle model: one per way the
\* constructor can end.
LifecycleUris == { GoodUri, ZeroPortUri, NoSchemeSepUri }

InitWith(uris) ==
  /\ uri \in uris
  /\ main_pc = "ctor"
  /\ cfg = NoFields
  /\ handlers = FALSE
  /\ global_signal = 0
  /\ manager_ptr_ = "unset"
  /\ rest_endpoint_ = "null"
  /\ result_queue_ = << >>
  /\ futures = << >>
  /\ worker_pc = "none"
  /\ fut = 0
  /\ res = NoResult
  /\ delivered = << >>
  /\ started = << >>
  /\ errors = << >>
  /\ joins = 0
  /\ shutdowns = 0
  /\ crashed = "no"

Init == InitWith(LifecycleUris)

Alive == crashed = "no"

(***************************************************************************)
(* Signal delivery, lines 47-50.                                           *)
(***************************************************************************)
sigHandler(signal) ==
  /\ Alive
  /\ handlers
  /\ global_signal' = signal
  /\ UNCHANGED << uri, main_pc, cfg, handlers, manager_ptr_, rest_endpoint_,
                  result_queue_, futures, worker_pc, fut, res, delivered,
                  started, errors, joins, shutdowns, crashed >>

(***************************************************************************)
(* The constructor, lines 99-138.                                          *)
(***************************************************************************)
\* Lines 101-118: install the handlers, parse the URI, throw or go on.
CtorParse ==
  /\ Alive
  /\ main_pc = "ctor"
  /\ handlers' = TRUE
  /\ IF UriRejected(uri)
     THEN /\ main_pc' = "ctor_threw"
          /\ cfg' = cfg
     ELSE /\ main_pc' = "ctor_thread"
          /\ cfg' = ParseUri(uri)
  /\ UNCHANGED << uri, global_signal, manager_ptr_, rest_endpoint_,
                  result_queue_, futures, worker_pc, fut, res, delivered,
                  started, errors, joins, shutdowns, crashed >>

\* Lines 121-126: bind the callback, start the response-handler thread.
CtorThread ==
  /\ Alive
  /\ main_pc = "ctor_thread"
  /\ main_pc' = "ctor_endpoint"
  /\ worker_pc' = "while"
  /\ UNCHANGED << uri, cfg, handlers, global_signal, manager_ptr_,
                  rest_endpoint_, result_queue_, futures, fut, res, delivered,
                  started, errors, joins, shutdowns, crashed >>

\* Lines 129-136: set the endpoint up, or log the exception and go on.
CtorEndpoint ==
  /\ Alive
  /\ main_pc = "ctor_endpoint"
  /\ main_pc' = "constructed"
  /\ IF EndpointSetUp(cfg.portstr)
     THEN /\ rest_endpoint_' = "initialised"
          /\ errors' = errors
     ELSE /\ rest_endpoint_' = rest_endpoint_
          /\ errors' = Append(errors, "ctor")
  /\ UNCHANGED << uri, cfg, handlers, global_signal, manager_ptr_,
                  result_queue_, futures, worker_pc, fut, res, delivered,
                  started, joins, shutdowns, crashed >>

(***************************************************************************)
(* run, lines 140-160.                                                     *)
(***************************************************************************)
\* Line 142.
RunSetManager ==
  /\ Alive
  /\ main_pc = "constructed"
  /\ main_pc' = "run_start"
  /\ manager_ptr_' = "manager"
  /\ UNCHANGED << uri, cfg, handlers, global_signal, rest_endpoint_,
                  result_queue_, futures, worker_pc, fut, res, delivered,
                  started, errors, joins, shutdowns, crashed >>

\* A run with no try/catch around start: the failure leaves run at once.
RunStart_abort ==
  /\ Alive
  /\ main_pc = "run_start"
  /\ IF rest_endpoint_ = "null"
     THEN /\ crashed' = "null_endpoint"
          /\ UNCHANGED << main_pc, rest_endpoint_, errors >>
     ELSE /\ crashed' = crashed
          /\ \E ok \in BOOLEAN :
               IF ok
               THEN /\ rest_endpoint_' = "serving"
                    /\ errors' = errors
                    /\ main_pc' = "run_wait"
               ELSE /\ rest_endpoint_' = rest_endpoint_
                    /\ errors' = Append(errors, "start")
                    /\ main_pc' = "run_threw"
  /\ UNCHANGED << uri, cfg, handlers, global_signal, manager_ptr_,
                  result_queue_, futures, worker_pc, fut, res, delivered,
                  started, joins, shutdowns >>

\* Lines 145-150: start the endpoint; a failure of start is logged.  A null
\* rest_endpoint_ is dereferenced here: the process dies.
RunStart ==
  /\ Alive
  /\ main_pc = "run_start"
  /\ IF rest_endpoint_ = "null"
     THEN /\ crashed' = "null_endpoint"
          /\ UNCHANGED << main_pc, rest_endpoint_, errors >>
     ELSE /\ main_pc' = "run_wait"
          /\ crashed' = crashed
          /\ \E ok \in BOOLEAN :
               IF ok
               THEN rest_endpoint_' = "serving" /\ errors' = errors
               ELSE rest_endpoint_' = rest_endpoint_
                    /\ errors' = Append(errors, "start")
  /\ UNCHANGED << uri, cfg, handlers, global_signal, manager_ptr_,
                  result_queue_, futures, worker_pc, fut, res, delivered,
                  started, joins, shutdowns >>

\* A wait loop that ends without having read a non-zero flag.
RunWait_nowait ==
  /\ Alive
  /\ main_pc = "run_wait"
  /\ main_pc' = "run_shutdown"
  /\ UNCHANGED << uri, cfg, handlers, global_signal, manager_ptr_,
                  rest_endpoint_, result_queue_, futures, worker_pc, fut, res,
                  delivered, started, errors, joins, shutdowns, crashed >>

\* Lines 153-155: the loop ends on the first test that reads a non-zero flag.
RunWait ==
  /\ Alive
  /\ main_pc = "run_wait"
  /\ global_signal # 0
  /\ main_pc' = "run_shutdown"
  /\ UNCHANGED << uri, cfg, handlers, global_signal, manager_ptr_,
                  rest_endpoint_, result_queue_, futures, worker_pc, fut, res,
                  delivered, started, errors, joins, shutdowns, crashed >>

\* Line 158.
RunShutdown ==
  /\ Alive
  /\ main_pc = "run_shutdown"
  /\ main_pc' = "run_clear"
  /\ rest_endpoint_' = "stopped"
  /\ shutdowns' = shutdowns + 1
  /\ UNCHANGED << uri, cfg, handlers, global_signal, manager_ptr_,
                  result_queue_, futures, worker_pc, fut, res, delivered,
                  started, errors, joins, crashed >>

\* Line 159.
RunClearManager ==
  /\ Alive
  /\ main_pc = "run_clear"
  /\ main_pc' = "ran"
  /\ manager_ptr_' = "null"
  /\ UNCHANGED << uri, cfg, handlers, global_signal, rest_endpoint_,
                  result_queue_, futures, worker_pc, fut, res, delivered,
                  started, errors, joins, shutdowns, crashed >>

(***************************************************************************)
(* The destructor, lines 85-87: it may run on any constructed object, and  *)
(* join returns once the response-handler thread has ended.                *)
(***************************************************************************)
DtorBegin ==
  /\ Alive
  /\ main_pc \in { "constructed", "ran" }
  /\ main_pc' = "joining"
  /\ UNCHANGED << uri, cfg, handlers, global_signal, manager_ptr_,
                  rest_endpoint_, result_queue_, futures, worker_pc, fut, res,
                  delivered, started, errors, joins, shutdowns, crashed >>

\* A destructor that lets go of the thread (detach) instead of waiting for it.
DtorJoin_nowait ==
  /\ Alive
  /\ main_pc = "joining"
  /\ main_pc' = "destroyed"
  /\ joins' = joins + 1
  /\ UNCHANGED << uri, cfg, handlers, global_signal, manager_ptr_,
                  rest_endpoint_, result_queue_, futures, worker_pc, fut, res,
                  delivered, started, errors, shutdowns, crashed >>

DtorJoin ==
  /\ Alive
  /\ main_pc = "joining"
  /\ worker_pc = "done"
  /\ main_pc' = "destroyed"
  /\ joins' = joins + 1
  /\ UNCHANGED << uri, cfg, handlers, global_signal, manager_ptr_,
                  rest_endpoint_, result_queue_, futures, worker_pc, fut, res,
                  delivered, started, errors, shutdowns, crashed >>

(***************************************************************************)
(* The endpoint's request handling (RestEndpoint, which the constructor    *)
(* hands result_queue_, command_callback_ and policy_ at line 131): a      *)
(* serving endpoint takes a command and its reply address, makes the       *)
(* future with std::async(policy_, command_callback_, ...) and pushes it.  *)
(* Under std::launch::async the callback begins at once on a thread of its *)
(* own; under std::launch::deferred nothing runs yet.                      *)
(***************************************************************************)
HandleRequest(command, ansaddr, port) ==
  /\ Alive
  /\ rest_endpoint_ = "serving"
  /\ Len(futures) < MaxCommands
  /\ LET f      == Len(futures) + 1
         begins == policy_ = "async"
         calls  == begins /\ ParseFailure(command) = ""
     IN  IF calls /\ manager_ptr_ # "manager"
         THEN /\ crashed' = "null_manager"
              /\ UNCHANGED << futures, result_queue_, started >>
         ELSE /\ futures' = Append(futures,
                   [ command |-> command, ansaddr |-> ansaddr, port |-> port,
                     state   |-> IF begins THEN "running" ELSE "deferred",
                     outcome |-> NoOutcome ])
              /\ result_queue_' = Append(result_queue_, f)
              /\ started' = IF calls THEN Append(started, f) ELSE started
              /\ crashed' = crashed
  /\ UNCHANGED << uri, main_pc, cfg, handlers, global_signal, manager_ptr_,
                  rest_endpoint_, worker_pc, fut, res, delivered, errors,
                  joins, shutdowns >>

\* The callback of future f ends: lines 57-63 set the result and return it.
\* A call of execute that never returns never gets here.
CallbackEnd(f) ==
  /\ Alive
  /\ f \in 1..Len(futures)
  /\ futures[f].state = "running"
  /\ ~ExecuteHangs(futures[f].command)
  /\ futures' = [ futures EXCEPT
                    ![f].state = "ready",
                    ![f].outcome = commandHandler(futures[f].command,
                                                  futures[f].ansaddr,
                                                  futures[f].port) ]
  /\ UNCHANGED << uri, main_pc, cfg, handlers, global_signal, manager_ptr_,
                  rest_endpoint_, result_queue_, worker_pc, fut, res,
                  delivered, started, errors, joins, shutdowns, crashed >>

(***************************************************************************)
(* responseHandler, lines 66-82.                                           *)
(***************************************************************************)
\* A loop test that ends the loop whatever the flag holds.
WorkerTest_exits ==
  /\ Alive
  /\ worker_pc = "while"
  /\ worker_pc' = "done"
  /\ UNCHANGED << uri, main_pc, cfg, handlers, global_signal, manager_ptr_,
                  rest_endpoint_, result_queue_, futures, fut, res, delivered,
                  started, errors, joins, shutdowns, crashed >>

\* Line 68: the loop test.
WorkerTest ==
  /\ Alive
  /\ worker_pc = "while"
  /\ worker_pc' = IF global_signal # 0 THEN "done" ELSE "empty"
  /\ UNCHANGED << uri, main_pc, cfg, handlers, global_signal, manager_ptr_,
                  rest_endpoint_, result_queue_, futures, fut, res, delivered,
                  started, errors, joins, shutdowns, crashed >>

\* Line 70.
WorkerEmpty ==
  /\ Alive
  /\ worker_pc = "empty"
  /\ worker_pc' = IF result_queue_ = << >> THEN "sleep" ELSE "pop"
  /\ UNCHANGED << uri, main_pc, cfg, handlers, global_signal, manager_ptr_,
                  rest_endpoint_, result_queue_, futures, fut, res, delivered,
                  started, errors, joins, shutdowns, crashed >>

\* Line 71.
WorkerSleep ==
  /\ Alive
  /\ worker_pc = "sleep"
  /\ worker_pc' = "while"
  /\ UNCHANGED << uri, main_pc, cfg, handlers, global_signal, manager_ptr_,
                  rest_endpoint_, result_queue_, futures, fut, res, delivered,
                  started, errors, joins, shutdowns, crashed >>

\* Lines 73-74.
WorkerPop ==
  /\ Alive
  /\ worker_pc = "pop"
  /\ LET r == try_pop(result_queue_)
     IN  /\ result_queue_' = r.rest
         /\ fut' = IF r.success THEN r.value ELSE fut
         /\ worker_pc' = IF r.success THEN "wait" ELSE "while"
  /\ UNCHANGED << uri, main_pc, cfg, handlers, global_signal, manager_ptr_,
                  rest_endpoint_, futures, res, delivered, started, errors,
                  joins, shutdowns, crashed >>

\* Line 75, entering fut.wait(): a deferred future's callback begins now, on
\* this thread.
WorkerWait ==
  /\ Alive
  /\ worker_pc = "wait"
  /\ worker_pc' = "blocked"
  /\ IF futures[fut].state = "deferred"
     THEN CallbackBegin(fut)
     ELSE UNCHANGED << futures, started, crashed >>
  /\ UNCHANGED << uri, main_pc, cfg, handlers, global_signal, manager_ptr_,
                  rest_endpoint_, result_queue_, fut, res, delivered, errors,
                  joins, shutdowns >>

\* Line 75, fut.wait() returning.
WorkerWaitReturn ==
  /\ Alive
  /\ worker_pc = "blocked"
  /\ WaitReturns(fut)
  /\ worker_pc' = "get"
  /\ UNCHANGED << uri, main_pc, cfg, handlers, global_signal, manager_ptr_,
                  rest_endpoint_, result_queue_, futures, fut, res, delivered,
                  started, errors, joins, shutdowns, crashed >>

\* Lines 76-77: fut.get() hands the result over (or rethrows what the
\* callback left in the shared state, which nothing on this thread catches:
\* std::terminate), and the answer is written.
WorkerGet ==
  /\ Alive
  /\ worker_pc = "get"
  /\ IF futures[fut].outcome.kind = "exception"
     THEN /\ crashed' = "terminate"
          /\ UNCHANGED << worker_pc, fut, res, delivered >>
     ELSE /\ res' = futures[fut].outcome.rr
          /\ delivered' = Append(delivered,
                                 [ id |-> fut, rr |-> futures[fut].outcome.rr ])
          /\ fut' = 0
          /\ worker_pc' = "while"
          /\ crashed' = crashed
  /\ UNCHANGED << uri, main_pc, cfg, handlers, global_signal, manager_ptr_,
                  rest_endpoint_, result_queue_, futures, started, errors,
                  joins, shutdowns >>

Worker ==
  \/ WorkerTest
  \/ WorkerEmpty
  \/ WorkerSleep
  \/ WorkerPop
  \/ WorkerWait
  \/ WorkerWaitReturn
  \/ WorkerGet

Callbacks == \E f \in 1..MaxCommands : CallbackEnd(f)

Owner ==
  \/ CtorParse
  \/ CtorThread
  \/ CtorEndpoint
  \/ RunSetManager
  \/ RunStart
  \/ RunWait
  \/ RunShutdown
  \/ RunClearManager
  \/ DtorBegin
  \/ DtorJoin

Requests ==
  \E command \in CommandTexts, ansaddr \in ReplyAddrs, port \in ReplyPorts :
    HandleRequest(command, ansaddr, port)

SignalDelivery == \E signal \in CaughtSignals : sigHandler(signal)

Next ==
  \/ Owner
  \/ Worker
  \/ Callbacks
  \/ Requests
  \/ SignalDelivery

Spec == Init /\ [][Next]_vars

(***************************************************************************)
(* The response handler under the scheduling a running thread gets: it     *)
(* keeps taking steps, and a callback that can end does end.               *)
(***************************************************************************)
FairSpec == Spec /\ WF_vars(Worker) /\ WF_vars(Callbacks)

(***************************************************************************)
(* Properties.                                                             *)
(***************************************************************************)
DeliveredIds == { delivered[i].id : i \in 1..Len(delivered) }

QueuedIds == { result_queue_[i] : i \in 1..Len(result_queue_) }

\* C1: results are delivered in the order their outcomes were enqueued: the
\* i-th answer written is the answer of the i-th outcome pushed, so no
\* outcome is ever delivered before one that was pushed ahead of it.
C1_DeliveredInEnqueueOrder ==
  \A i \in 1..Len(delivered) : delivered[i].id = i

C1_TwoDeliveredInOrder ==
  /\ Len(delivered) >= 2
  /\ delivered[1].rr.result_ # delivered[2].rr.result_
  /\ result_queue_ # << >>

\* C2: every outcome is delivered at most once, and every answer written is
\* the result of an outcome that was pushed, has left the queue and is no
\* longer held by the response handler.
C2_DeliveredOnceAndPushed ==
  /\ \A i, j \in 1..Len(delivered) :
       delivered[i].id = delivered[j].id => i = j
  /\ \A i \in 1..Len(delivered) :
       /\ delivered[i].id \in 1..Len(futures)
       /\ delivered[i].id \notin QueuedIds
       /\ delivered[i].id # fut
       /\ futures[delivered[i].id].state = "ready"
       /\ delivered[i].rr = futures[delivered[i].id].outcome.rr
       /\ delivered[i].rr.answer_addr_ = futures[delivered[i].id].ansaddr

C2_OneDeliveredOnePending ==
  /\ Len(delivered) = 1
  /\ Len(result_queue_) = 1
  /\ fut # 0

\* Outcome i cannot be held up by an execute that never returns: neither its
\* own command nor one pushed ahead of it is such a command.
ResolvesUpTo(i) ==
  \A j \in 1..i : ~ExecuteHangs(futures[j].command)

\* C3: while the signal flag stays zero, every pushed outcome that is not
\* behind (and is not itself) a never-returning execute is eventually
\* popped, resolved and delivered by the response handler.
C3_PushedEventuallyDelivered ==
  \A i \in 1..MaxCommands :
    (i <= Len(futures) /\ ResolvesUpTo(i))
      ~> (i \in DeliveredIds \/ global_signal # 0)

C3_AllDeliveredWhileRunning ==
  /\ global_signal = 0
  /\ Len(futures) >= 2
  /\ Len(delivered) = Len(futures)

\* C4: the result a callback returns is "OK" exactly when decoding and
\* execute both succeed, and is the failure's what() text otherwise; it is
\* never the empty text the result was constructed with.
C4_ResultIsOkOrMessage ==
  \A f \in 1..Len(futures) :
    futures[f].state = "ready" =>
      LET command == futures[f].command
          result  == futures[f].outcome.rr.result_
      IN  /\ (ParseFailure(command) = "" /\ ExecuteFailure(command) = "")
               => result = "OK"
          /\ ParseFailure(command) # "" => result = ParseFailure(command)
          /\ (ParseFailure(command) = "" /\ ExecuteFailure(command) # "")
               => result = ExecuteFailure(command)
          /\ result # ""
          /\ result = "OK"
               => (ParseFailure(command) = "" /\ ExecuteFailure(command) = "")

C4_OkAndBothFailuresReturned ==
  \E f, g, h \in 1..Len(futures) :
    /\ futures[f].state = "ready" /\ futures[f].outcome.rr.result_ = "OK"
    /\ futures[g].state = "ready"
    /\ futures[g].outcome.rr.result_ = ParseErrorText
    /\ futures[h].state = "ready"
    /\ futures[h].outcome.rr.result_ = ExecErrorText

\* C5: no failure of decoding or of execute leaves the callback: every
\* callback that has ended left a CommandResult value in its future, and
\* the response handler's get() never rethrows.
C5_NoFailureLeavesCallback ==
  /\ \A f \in 1..Len(futures) :
       futures[f].state = "ready" => futures[f].outcome.kind = "value"
  /\ crashed # "terminate"

C5_FailuresDeliveredAsValues ==
  \E i, j \in 1..Len(delivered) :
    /\ delivered[i].rr.result_ = ParseErrorText
    /\ delivered[j].rr.result_ = ExecErrorText

\* C6: once the signal flag is set, the response handler (when it was ever
\* started, and for as long as the process lives) eventually reads the flag
\* and leaves its loop.
C6_StopObservedByWorker ==
  (global_signal # 0 /\ worker_pc # "none")
    ~> (worker_pc = "done" \/ crashed # "no")

\* C7: when the destructor's join has returned, every outcome that was
\* pushed has either been delivered or been named in an error record.
C7_NothingDroppedAtJoin ==
  joins > 0 =>
    \A f \in 1..Len(futures) :
      \/ f \in DeliveredIds
      \/ \E k \in 1..Len(errors) : errors[k] = "unresolved"

\* The response handler is inside fut.wait() on an outcome whose execute
\* never returns.
BlockedOnEndless ==
  /\ worker_pc = "blocked"
  /\ fut # 0
  /\ ExecuteHangs(futures[fut].command)

\* C8: a response handler waiting on an outcome that never resolves stays
\* there, and no further answer is written from then on.
C8_BlockedForever ==
  [][BlockedOnEndless => (BlockedOnEndless' /\ delivered' = delivered)]_vars

C8_BlockedWithOthersQueued ==
  /\ BlockedOnEndless
  /\ Len(result_queue_) >= 2
  /\ global_signal # 0

\* C9: under the deferred policy an execute call begins only inside the
\* response handler's wait on the popped outcome: at most one call is in
\* progress, it is the popped outcome's, the outcomes still queued have not
\* begun, and the calls begin in enqueue order.
C9_ExecutionSerialized ==
  /\ Cardinality(Executing) <= 1
  /\ \A f \in Executing : f = fut /\ worker_pc = "blocked"
  /\ \A f \in QueuedIds : futures[f].state = "deferred"
  /\ \A i, j \in 1..Len(started) : i < j => started[i] < started[j]

C9_ExecutingWithOthersQueued ==
  /\ Executing # {}
  /\ Len(started) >= 2
  /\ result_queue_ # << >>

(***************************************************************************)
(* The constructor on its own, over a wider set of configuration strings.  *)
(***************************************************************************)
\* scheme://name@host:port
ComposeUri(scheme, name, host, port) ==
  scheme \o SchemeSep \o name \o << "@" >> \o host \o << ":" >> \o port

\* The parts of the well-formed strings: a scheme with no '@' and no "://",
\* a name with no '@', any host (with ':' or '@' inside too), a decimal port
\* in [1, 65535].
SchemeTexts == { << "r" >>, << "r", "s" >>, << "r", ":" >> }

NameTexts == { << "e" >>, << "e", "p" >>, << "e", ":", "p" >> }

HostTexts == { << "h" >>, << "h", ".", "o" >>, << "h", ":", "1" >>,
               << "h", "@", "o" >> }

PortTexts == { << "1" >>, << "8", "0" >>, << "6", "5", "5", "3", "5" >> }

\* rest://ep1@localhost:12345
ScenarioUri ==
  ComposeUri(<< "r", "e", "s", "t" >>, << "e", "p", "1" >>,
             << "l", "o", "c", "a", "l", "h", "o", "s", "t" >>,
             << "1", "2", "3", "4", "5" >>)

WellFormedUris ==
  { ComposeUri(scheme, name, host, port) :
      scheme \in SchemeTexts, name \in NameTexts,
      host \in HostTexts, port \in PortTexts }
  \cup { ScenarioUri }

\* Strings with no "://": with a port, with a ':' only, with no ':' at all.
NoSchemeSepUris ==
  { << "e", "@", "h", ":", "8", "0" >>, NoSchemeSepUri, << "r", "e", "h" >> }

\* Strings scheme://name@host with no :<port> after the host, and one that
\* ends with the ':' alone.
NoPortUris ==
  { scheme \o SchemeSep \o name \o << "@" >> \o host :
      scheme \in { << "r" >>, << "r", "s" >> },
      name \in { << "e" >>, << "e", "p" >> },
      host \in { << "h" >>, << "h", ".", "o" >> } }
  \cup { << "r", ":", "/", "/", "e", "@", "h", ":" >> }

\* Port texts that are no decimal number in [1, 65535].
BadPortTexts ==
  { << "0" >>, << "x" >>, << "8", "x" >>, << "6", "5", "5", "3", "6" >> }

BadPortUris ==
  { ComposeUri(<< "r" >>, << "e" >>, << "h" >>, port) : port \in BadPortTexts }

\* Strings with "://" and a trailing :<port> whose '@' is missing, or stands
\* before the "://", or stands after the last ':'.
MisplacedAtUris ==
  { << "r", ":", "/", "/", "h", ":", "8", "0" >>,
    << "r", "@", "s", ":", "/", "/", "h", ":", "8", "0" >>,
    << "r", ":", "/", "/", "h", ":", "8", "0", "@" >> }

UriInputs ==
  WellFormedUris \cup LifecycleUris \cup NoSchemeSepUris \cup NoPortUris
    \cup BadPortUris \cup MisplacedAtUris

InitUri == InitWith(UriInputs)

NextUri ==
  \/ CtorParse
  \/ CtorThread
  \/ CtorEndpoint

SpecUri == InitUri /\ [][NextUri]_vars

\* C10: for a string scheme://name@host:port with the port in [1, 65535],
\* the constructor does not throw and its parse yields exactly the four
\* parts: the text before the first "://", the text between it and the '@',
\* the text between the '@' and the last ':', and the text after the last ':'.
C10_WellFormedUriParsed ==
  \A scheme \in SchemeTexts \cup { << "r", "e", "s", "t" >> },
     name \in NameTexts \cup { << "e", "p", "1" >> },
     host \in HostTexts \cup { << "l", "o", "c", "a", "l", "h", "o", "s", "t" >> },
     port \in PortTexts \cup { << "1", "2", "3", "4", "5" >> } :
    uri = ComposeUri(scheme, name, host, port) =>
      /\ main_pc # "ctor_threw"
      /\ main_pc # "ctor" =>
           /\ cfg.scheme = scheme
           /\ cfg.epname = name
           /\ cfg.hostname = host
           /\ cfg.portstr = port

C10_ScenarioParsed ==
  /\ main_pc = "constructed"
  /\ cfg.scheme = << "r", "e", "s", "t" >>
  /\ cfg.epname = << "e", "p", "1" >>
  /\ cfg.hostname = << "l", "o", "c", "a", "l", "h", "o", "s", "t" >>
  /\ Stoi(cfg.portstr) = 12345

\* C11: a string with no "://", or with no :<port> after the host, makes
\* the constructor throw: it never gets past line 110.
C11_MalformedUriRejected ==
  uri \in NoSchemeSepUris \cup NoPortUris =>
    main_pc \in { "ctor", "ctor_threw" }

\* C12: a port text that is no number in [1, 65535] makes construction
\* fail: the constructor never ends with a constructed object (whose
\* response-handler thread runs).
C12_BadPortFailsConstruction ==
  uri \in BadPortUris =>
    main_pc \in { "ctor", "ctor_thread", "ctor_endpoint", "ctor_threw" }

\* C18: a string with "://" and a trailing :<port> whose '@' is missing or
\* misplaced makes the constructor throw instead of yielding name and host.
C18_MisplacedAtRejected ==
  uri \in MisplacedAtUris =>
    /\ main_pc \in { "ctor", "ctor_threw" }
    /\ ~cfg.parsed

(***************************************************************************)
(* The owner thread inside run keeps taking steps as well.                 *)
(***************************************************************************)
RunSteps == RunWait \/ RunShutdown \/ RunClearManager

FairRunSpec == FairSpec /\ WF_vars(RunSteps)

(***************************************************************************)
(* SIGKILL.  Line 102 asks for sigHandler on SIGKILL too, which std::signal *)
(* refuses (SIGKILL cannot be caught): its delivery ends the process and   *)
(* runs no handler.                                                        *)
(***************************************************************************)
SIGKILL == 9

\* The signals line 101-103 name.
NamedSignals == { SIGQUIT, SIGKILL, SIGABRT }

KillDelivery ==
  /\ Alive
  /\ crashed' = "killed"
  /\ UNCHANGED << uri, main_pc, cfg, handlers, global_signal, manager_ptr_,
                  rest_endpoint_, result_queue_, futures, worker_pc, fut, res,
                  delivered, started, errors, joins, shutdowns >>

NextSignals ==
  \/ Next
  \/ KillDelivery

SpecSignals == Init /\ [][NextSignals]_vars

\* TRUE when errors holds a record of the given kind.
Logged(kind) == \E k \in 1..Len(errors) : errors[k] = kind

\* C13: the destructor's join returns at most once, and the object is
\* destroyed only with that one join done and the response handler out of
\* its loop; so no state after destruction has the handler running.
C13_JoinedOnceBeforeDestroyed ==
  /\ joins <= 1
  /\ joins = 1 <=> main_pc = "destroyed"
  /\ main_pc = "destroyed" => worker_pc = "done"

C13_DestroyedAfterServing ==
  /\ main_pc = "destroyed"
  /\ joins = 1
  /\ Len(delivered) >= 1

\* C14: no callback calls execute through manager_ptr_ before run has set it
\* or after run has cleared it.
C14_ExecuteOnlyWithManager ==
  crashed # "null_manager"

\* C15: the flag starts at zero; once non-zero it never returns to zero; and
\* the delivery of SIGQUIT, SIGKILL or SIGABRT leaves it non-zero.
C15_SignalFlag ==
  /\ global_signal = 0
  /\ [][ /\ global_signal # 0 => global_signal' # 0
         /\ (handlers /\ crashed = "no" /\ crashed' = "killed")
              => global_signal' # 0
         /\ (crashed' = "no" /\ global_signal' # global_signal)
              => global_signal' \in NamedSignals ]_vars

\* run has returned: only its last statement, line 159, nulls manager_ptr_.
RunReturned == manager_ptr_ = "null"

\* C16: run returns only with the flag set; it calls the endpoint's shutdown
\* at most once, only with the flag set and only after the start attempt and
\* the wait loop; when it has returned it has called shutdown exactly once.
C16_ShutdownOnceAfterSignal ==
  /\ shutdowns <= 1
  /\ shutdowns = 1 =>
       /\ global_signal # 0
       /\ main_pc \in { "run_clear", "ran", "joining", "destroyed" }
       /\ rest_endpoint_ = "stopped"
  /\ main_pc = "run_shutdown" => global_signal # 0
  /\ RunReturned => (global_signal # 0 /\ shutdowns = 1)

C16_RunReturnedAfterServing ==
  /\ main_pc = "ran"
  /\ shutdowns = 1
  /\ Len(delivered) >= 1
  /\ ~Logged("start")

\* C17: a failed start is logged and run goes on: it is in its wait loop or
\* past it, the response handler keeps running while the flag is zero, and
\* once the flag is set run calls shutdown and clears manager_ptr_.
C17_FailedStartGoesOn ==
  /\ [](Logged("start") =>
          /\ main_pc \in { "run_wait", "run_shutdown", "run_clear", "ran",
                           "joining", "destroyed" }
          /\ global_signal = 0 => worker_pc \in { "while", "empty", "sleep" }
          /\ RunReturned => shutdowns = 1)
  /\ (Logged("start") /\ global_signal # 0)
       ~> (shutdowns = 1 /\ RunReturned)

C17_FailedStartRunReturned ==
  /\ Logged("start")
  /\ main_pc = "ran"
  /\ shutdowns = 1
  /\ RunReturned

\* A step of the destructor: it begins, or its join returns.
DtorStep ==
  /\ main_pc' # main_pc
  /\ main_pc' \in { "joining", "destroyed" }

\* C19: the response handler is out of its loop only with the flag set, no
\* step of the destructor writes the flag, and so the destructor has
\* returned only in states where the flag was set by a signal.
C19_JoinNeedsSignal ==
  /\ [](worker_pc = "done" => global_signal # 0)
  /\ [](main_pc = "destroyed" => global_signal \in CaughtSignals)
  /\ [][DtorStep => (global_signal' = global_signal)]_vars

C19_JoiningWhileRunning ==
  /\ main_pc = "joining"
  /\ global_signal = 0
  /\ worker_pc = "sleep"
  /\ manager_ptr_ = "unset"

\* C20: a constructor that has returned has left an endpoint behind, and run
\* never calls start or shutdown through a null rest_endpoint_.
C20_EndpointExistsAfterCtor ==
  /\ main_pc \notin { "ctor", "ctor_thread", "ctor_endpoint", "ctor_threw" }
       => rest_endpoint_ # "null"
  /\ crashed # "null_endpoint"

====
